---- MODULE Spec2Model ----
(***************************************************************************)
(* Model of the question generator (src/question_generator.py): the        *)
(* response recovery pipeline _extract_json -> json.loads -> per-kind      *)
(* validation -> fallback synthesis, and the three generation entry points *)
(* generate_mcq, generate_fillup and generate_coding built on it; and of   *)
(* the benchmark loops of QuestionBenchmark (src/benchmark_generation.py)  *)
(* that call them and accumulate their records.                            *)
(*                                                                         *)
(* Python values are records tagged by their type (field t).  A Python     *)
(* str is a sequence of pieces (a whitespace piece is one whitespace       *)
(* character, any other piece is a run of non-whitespace characters), so   *)
(* that str.strip() and f-string formatting are computed, not assumed.     *)
(* Raw completion text is a sequence of lexemes.                           *)
(***************************************************************************)
EXTENDS Integers, Sequences, FiniteSets, TLC

VARIABLES call_topic, call_difficulty, call_count, response, pc, kind, outcome, path,
          call_cleaned, questions

\* The QuestionBenchmark object (src/benchmark_generation.py): results is its
\* field; run_kind, run_iterations, run_times, run_quality_scores and
\* run_summary are the kind, the argument iterations, the locals times and
\* quality_scores and the return value of its last benchmark run; calls counts
\* the generation calls made so far.  generated and succeeded are history
\* variables: per kind the concatenation of the record lists the generation
\* calls returned, and the iterations of the last run whose call returned.
VARIABLES results, run_kind, run_iterations, run_times, run_quality_scores,
          run_summary, calls, generated, succeeded

generatorVars == <<call_topic, call_difficulty, call_count, response, pc, kind, outcome,
                   path, call_cleaned, questions>>

benchmarkVars == <<results, run_kind, run_iterations, run_times, run_quality_scores,
                   run_summary, calls, generated, succeeded>>

vars == <<generatorVars, benchmarkVars>>

(***************************************************************************)
(* Bounds of the model.                                                    *)
(***************************************************************************)
MaxCount == 2
MaxElems == 3
\* The generation calls one QuestionBenchmark makes over all its runs.
MaxCalls == 2

(***************************************************************************)
(* Python / JSON values.                                                   *)
(***************************************************************************)
\* Each tag has its own payload field, so that two values of different tags
\* are told apart by their tags and payloads of different types never meet.
Str(s) == [t |-> "str", s |-> s]
Num(n) == [t |-> "num", n |-> n]
Null == [t |-> "null"]
Arr(a) == [t |-> "arr", a |-> a]
Obj(o) == [t |-> "obj", o |-> o]

EmptyDict == [k \in {} |-> Null]

\* Python truthiness: bool(x) as used by (a and b) in the field checks.
Truthy(x) ==
    CASE x.t = "str" -> x.s # <<>>
      [] x.t = "num" -> x.n # 0
      [] x.t = "null" -> FALSE
      [] x.t = "arr" -> x.a # <<>>
      [] x.t = "obj" -> DOMAIN x.o # {}

\* dict.get(key, default)
Get(q, key, default) == IF key \in DOMAIN q THEN q[key] ELSE default

Whitespace == {" ", "\n", "\t"}

RECURSIVE LStrip(_)
LStrip(s) == IF s # <<>> /\ Head(s) \in Whitespace THEN LStrip(Tail(s)) ELSE s

RECURSIVE RStrip(_)
RStrip(s) ==
    IF s # <<>> /\ s[Len(s)] \in Whitespace THEN RStrip(SubSeq(s, 1, Len(s) - 1)) ELSE s

\* str.strip()
Strip(s) == RStrip(LStrip(s))

(***************************************************************************)
(* Lexemes of the raw completion text.                                     *)
(***************************************************************************)
P(c) == [t |-> "punct", c |-> c]
SLit(s) == [t |-> "strlit", s |-> s]
NLit(n) == [t |-> "numlit", n |-> n]
NullLit == [t |-> "nulllit"]
Word(w) == [t |-> "word", w |-> w]
Ws(c) == [t |-> "ws", c |-> c]
\* the markdown code fence (three backquotes)
Fence == [t |-> "fence"]

IsWs(tok) == tok.t = "ws"

\* The text of a string: its pieces joined (used for dictionary keys).
RECURSIVE Join(_)
Join(s) == IF s = <<>> THEN "" ELSE Head(s) \o Join(Tail(s))

(***************************************************************************)
(* _extract_json                                                           *)
(***************************************************************************)
\* Index of the first lexeme at or after i that is not whitespace.
RECURSIVE SkipWs(_, _)
SkipWs(toks, i) ==
    IF i <= Len(toks) /\ IsWs(toks[i]) THEN SkipWs(toks, i + 1) ELSE i

\* The positions of the whitespace run that directly follows position j (\s*).
WsRunAfter(toks, j) ==
    {i \in (j + 1)..Len(toks) : \A k \in (j + 1)..i : IsWs(toks[k])}

\* toks without the lexemes at the positions in removed (re.sub with '').
RemoveAll(toks, removed) ==
    LET keep == SelectSeq([i \in 1..Len(toks) |-> i], LAMBDA i : i \notin removed)
    IN  [k \in 1..Len(keep) |-> toks[keep[k]]]

\* re.sub of a fence followed by the tag json and whitespace (first re.sub)
SubFenceJson(toks) ==
    LET matches == {i \in 1..(Len(toks) - 1) :
                        toks[i] = Fence /\ toks[i + 1] = Word("json")}
    IN  RemoveAll(toks, UNION {{i, i + 1} \cup WsRunAfter(toks, i + 1) : i \in matches})

\* re.sub of a fence and the whitespace after it (second re.sub)
SubFence(toks) ==
    LET matches == {i \in 1..Len(toks) : toks[i] = Fence}
    IN  RemoveAll(toks, UNION {{i} \cup WsRunAfter(toks, i) : i \in matches})

Positions(toks, c) == {i \in 1..Len(toks) : toks[i] = P(c)}

Max(S) == CHOOSE x \in S : \A y \in S : y <= x
Min(S) == CHOOSE x \in S : \A y \in S : x <= y

\* re.search for a [...] or {...} span with re.DOTALL: the leftmost
\* position at which one alternative matches, extended greedily to the last
\* closing bracket of the same kind.  The result is <<>> when nothing matches,
\* otherwise <<first, last>>.
Search(toks) ==
    LET Starts ==
            {i \in Positions(toks, "[") : \E j \in Positions(toks, "]") : j > i}
            \cup
            {i \in Positions(toks, "{") : \E j \in Positions(toks, "}") : j > i}
    IN  IF Starts = {} THEN <<>>
        ELSE LET s == Min(Starts)
                 close == IF toks[s] = P("[") THEN "]" ELSE "}"
             IN  <<s, Max(Positions(toks, close))>>

\* raw_output.strip() on a lexeme sequence
RECURSIVE StripText(_)
StripText(toks) ==
    IF toks # <<>> /\ IsWs(Head(toks)) THEN StripText(Tail(toks))
    ELSE IF toks # <<>> /\ IsWs(toks[Len(toks)])
         THEN StripText(SubSeq(toks, 1, Len(toks) - 1))
         ELSE toks

ExtractJson(raw_output) ==
    LET unfenced == SubFence(SubFenceJson(raw_output))
        json_match == Search(unfenced)
    IN  IF json_match # <<>>
        THEN SubSeq(unfenced, json_match[1], json_match[2])
        ELSE StripText(unfenced)

(***************************************************************************)
(* json.loads: a recursive-descent parser over the lexemes.  Every parse   *)
(* operator returns [ok, v, n]: success, the value, the next index.        *)
(***************************************************************************)
ParseFail == [ok |-> FALSE, v |-> Null, n |-> 0]
ParseOk(val, next) == [ok |-> TRUE, v |-> val, n |-> next]

TokAt(toks, i) == IF i <= Len(toks) THEN toks[i] ELSE Word("<eof>")

RECURSIVE ParseValue(_, _), ParseElems(_, _, _), ParseMembers(_, _, _)

ParseValue(toks, i) ==
    LET j == SkipWs(toks, i)
        tok == TokAt(toks, j)
    IN  CASE tok.t = "strlit" -> ParseOk(Str(tok.s), j + 1)
          [] tok.t = "numlit" -> ParseOk(Num(tok.n), j + 1)
          [] tok.t = "nulllit" -> ParseOk(Null, j + 1)
          [] tok = P("[") ->
                IF TokAt(toks, SkipWs(toks, j + 1)) = P("]")
                THEN ParseOk(Arr(<<>>), SkipWs(toks, j + 1) + 1)
                ELSE ParseElems(toks, j + 1, <<>>)
          [] tok = P("{") ->
                IF TokAt(toks, SkipWs(toks, j + 1)) = P("}")
                THEN ParseOk(Obj(EmptyDict), SkipWs(toks, j + 1) + 1)
                ELSE ParseMembers(toks, j + 1, EmptyDict)
          [] OTHER -> ParseFail

ParseElems(toks, i, acc) ==
    LET r == ParseValue(toks, i)
        k == SkipWs(toks, r.n)
    IN  IF ~r.ok THEN ParseFail
        ELSE IF TokAt(toks, k) = P(",") THEN ParseElems(toks, k + 1, Append(acc, r.v))
        ELSE IF TokAt(toks, k) = P("]") THEN ParseOk(Arr(Append(acc, r.v)), k + 1)
        ELSE ParseFail

ParseMembers(toks, i, acc) ==
    LET j == SkipWs(toks, i)
        key == TokAt(toks, j)
        c == SkipWs(toks, j + 1)
        r == ParseValue(toks, c + 1)
        k == SkipWs(toks, r.n)
        \* a repeated key keeps its last value
        acc2 == (Join(key.s) :> r.v) @@ acc
    IN  IF key.t # "strlit" \/ TokAt(toks, c) # P(":") THEN ParseFail
        ELSE IF ~r.ok THEN ParseFail
        ELSE IF TokAt(toks, k) = P(",") THEN ParseMembers(toks, k + 1, acc2)
        ELSE IF TokAt(toks, k) = P("}") THEN ParseOk(Obj(acc2), k + 1)
        ELSE ParseFail

\* json.loads(cleaned): ok = FALSE stands for json.JSONDecodeError.
JsonLoads(cleaned) ==
    LET r == ParseValue(cleaned, 1)
    IN  IF r.ok /\ SkipWs(cleaned, r.n) > Len(cleaned)
        THEN [ok |-> TRUE, v |-> r.v]
        ELSE [ok |-> FALSE, v |-> Null]

(***************************************************************************)
(* Stage C: per-kind validation.  q is the dict of one parsed element, i   *)
(* its 1-based position.                                                   *)
(***************************************************************************)
\* ValidatedMcq with the type taken from the source element when it has one.
ValidatedMcq_SourceType(q, i, topic, difficulty) ==
    [id |-> Get(q, "id", Num(i)),
     topic |-> Get(q, "topic", Str(topic)),
     difficulty |-> Get(q, "difficulty", Str(difficulty)),
     type |-> Get(q, "type", Str(<<"mcq">>)),
     question |-> Get(q, "question", Str(<<>>)),
     options |-> Get(q, "options", Obj(EmptyDict)),
     correct_answer |-> Get(q, "correct_answer", Str(<<"A">>)),
     explanation |-> Get(q, "explanation", Str(<<>>))]

ValidatedMcq(q, i, topic, difficulty) ==
    [id |-> Get(q, "id", Num(i)),
     topic |-> Get(q, "topic", Str(topic)),
     difficulty |-> Get(q, "difficulty", Str(difficulty)),
     type |-> Str(<<"mcq">>),
     question |-> Get(q, "question", Str(<<>>)),
     options |-> Get(q, "options", Obj(EmptyDict)),
     correct_answer |-> Get(q, "correct_answer", Str(<<"A">>)),
     explanation |-> Get(q, "explanation", Str(<<>>))]

\* if validated["question"] and validated["options"]
CheckMcq(validated) == Truthy(validated.question) /\ Truthy(validated.options)

ValidatedFillup(q, i, topic, difficulty) ==
    [id |-> Get(q, "id", Num(i)),
     topic |-> Get(q, "topic", Str(topic)),
     difficulty |-> Get(q, "difficulty", Str(difficulty)),
     type |-> Str(<<"fillup">>),
     question |-> Get(q, "question", Str(<<>>)),
     correct_word |-> Get(q, "correct_word", Str(<<>>)),
     hint |-> Get(q, "hint", Str(<<>>)),
     explanation |-> Get(q, "explanation", Str(<<>>))]

\* if validated["question"] and validated["correct_word"]
CheckFillup(validated) == Truthy(validated.question) /\ Truthy(validated.correct_word)

\* The fields on which _parse_coding calls .strip()
StrippedFields == {"question", "input", "output", "constraints", "expected_output_example"}

\* q.get(key, "").strip() exists only for a str; any other value (number,
\* None, list, dict) has no attribute strip and raises AttributeError.
StripRaises(q) == \E key \in StrippedFields : Get(q, key, Str(<<>>)).t # "str"

\* GetStripped reading the field without trimming it.
GetStripped_Untrimmed(q, key) == Str(Get(q, key, Str(<<>>)).s)

GetStripped(q, key) == Str(Strip(Get(q, key, Str(<<>>)).s))

ValidatedCoding(q, i, topic, difficulty) ==
    [id |-> Get(q, "id", Num(i)),
     topic |-> Get(q, "topic", Str(topic)),
     difficulty |-> Get(q, "difficulty", Str(difficulty)),
     type |-> Str(<<"coding">>),
     question |-> GetStripped(q, "question"),
     input |-> GetStripped(q, "input"),
     output |-> GetStripped(q, "output"),
     constraints |-> GetStripped(q, "constraints"),
     expected_output_example |-> GetStripped(q, "expected_output_example"),
     time_limit_seconds |-> Get(q, "time_limit_seconds", Num(120))]

\* if validated["question"] and validated["input"] and validated["output"]
CheckCoding(validated) ==
    Truthy(validated.question) /\ Truthy(validated.input) /\ Truthy(validated.output)

(***************************************************************************)
(* Stage D: fallback synthesis.  Python's i ranges over range(count).      *)
(***************************************************************************)
FallbackExplanation ==
    <<"This is a fallback question. Please regenerate for better quality.">>

\* GenerateFallbackMcq naming an answer that is not among its options.
GenerateFallbackMcq_AnswerE(topic, difficulty, count) ==
    [j \in 1..count |->
        LET i == j - 1
        IN  [id |-> Num(i + 1),
             topic |-> Str(topic),
             difficulty |-> Str(difficulty),
             type |-> Str(<<"mcq">>),
             question |-> Str(<<"What is an important concept in ">> \o topic
                              \o <<"? (Question ", ToString(i + 1), ")">>),
             options |-> Obj([A |-> Str(<<"Option A">>), B |-> Str(<<"Option B">>),
                              C |-> Str(<<"Option C">>), D |-> Str(<<"Option D">>)]),
             correct_answer |-> Str(<<"E">>),
             explanation |-> Str(FallbackExplanation)]]

GenerateFallbackMcq(topic, difficulty, count) ==
    [j \in 1..count |->
        LET i == j - 1
        IN  [id |-> Num(i + 1),
             topic |-> Str(topic),
             difficulty |-> Str(difficulty),
             type |-> Str(<<"mcq">>),
             question |-> Str(<<"What is an important concept in ">> \o topic
                              \o <<"? (Question ", ToString(i + 1), ")">>),
             options |-> Obj([A |-> Str(<<"Option A">>), B |-> Str(<<"Option B">>),
                              C |-> Str(<<"Option C">>), D |-> Str(<<"Option D">>)]),
             correct_answer |-> Str(<<"A">>),
             explanation |-> Str(FallbackExplanation)]]

GenerateFallbackFillup(topic, difficulty, count) ==
    [j \in 1..count |->
        LET i == j - 1
        IN  [id |-> Num(i + 1),
             topic |-> Str(topic),
             difficulty |-> Str(difficulty),
             type |-> Str(<<"fillup">>),
             question |-> Str(<<"In ">> \o topic
                              \o <<", ___ is an important concept (Question ",
                                   ToString(i + 1), ")">>),
             correct_word |-> Str(<<"placeholder">>),
             hint |-> Str(<<"Key concept">>),
             explanation |-> Str(FallbackExplanation)]]

\* time_limits.get(difficulty, 120)
TimeLimits(difficulty) ==
    CASE difficulty = <<"easy">> -> 120
      [] difficulty = <<"medium">> -> 180
      [] difficulty = <<"hard">> -> 300
      [] OTHER -> 120

GenerateFallbackCoding(topic, difficulty, count) ==
    [j \in 1..count |->
        LET i == j - 1
        IN  [id |-> Num(i + 1),
             topic |-> Str(topic),
             difficulty |-> Str(difficulty),
             type |-> Str(<<"coding">>),
             question |-> Str(<<"Write a function for ">> \o topic
                              \o <<" (Question ", ToString(i + 1), ")">>),
             function_name |-> Str(<<"solve_", ToString(i + 1)>>),
             test_input |-> Str(<<"input">>),
             expected_output |-> Str(<<"output">>),
             time_limit_seconds |-> Num(TimeLimits(difficulty))]]

(***************************************************************************)
(* The parse functions.  A result is [outcome, path, questions]: outcome   *)
(* "returned" or "raised"; path tells which return statement was reached.  *)
(***************************************************************************)
Validated(qs) ==
    [outcome |-> "returned", path |-> "validated", questions |-> qs,
     cleaned |-> <<>>]
Fallback(qs) ==
    [outcome |-> "returned", path |-> "fallback", questions |-> qs,
     cleaned |-> <<>>]
ParseRaised ==
    [outcome |-> "raised", path |-> "parse_raised", questions |-> <<>>,
     cleaned |-> <<>>]
CallRaised ==
    [outcome |-> "raised", path |-> "call_raised", questions |-> <<>>,
     cleaned |-> <<>>]

\* The loop of _parse_mcq over enumerate(parsed, 1), from position i on:
\* the list valid_questions.
RECURSIVE ValidMcq(_, _, _, _)
ValidMcq(parsed, i, topic, difficulty) ==
    IF i > Len(parsed) THEN <<>>
    ELSE LET q == parsed[i]
             rest == ValidMcq(parsed, i + 1, topic, difficulty)
         IN  IF q.t = "obj" /\ CheckMcq(ValidatedMcq(q.o, i, topic, difficulty))
             THEN <<ValidatedMcq(q.o, i, topic, difficulty)>> \o rest
             ELSE rest

ParseMcq(raw_output, topic, difficulty, count) ==
    LET cleaned == ExtractJson(raw_output)
        parsed == JsonLoads(cleaned)
        fallback == Fallback(GenerateFallbackMcq(topic, difficulty, count))
        result ==
            IF ~parsed.ok THEN fallback
            ELSE IF parsed.v.t = "arr"
                 THEN LET valid_questions == ValidMcq(parsed.v.a, 1, topic, difficulty)
                      IN  IF valid_questions # <<>> THEN Validated(valid_questions)
                          ELSE fallback
            ELSE IF parsed.v.t = "obj"
                 THEN LET validated == ValidatedMcq(parsed.v.o, 1, topic, difficulty)
                      IN  IF CheckMcq(validated) THEN Validated(<<validated>>)
                          ELSE fallback
            ELSE fallback
    IN  [result EXCEPT !.cleaned = cleaned]

RECURSIVE ValidFillup(_, _, _, _)
ValidFillup(parsed, i, topic, difficulty) ==
    IF i > Len(parsed) THEN <<>>
    ELSE LET q == parsed[i]
             rest == ValidFillup(parsed, i + 1, topic, difficulty)
         IN  IF q.t = "obj" /\ CheckFillup(ValidatedFillup(q.o, i, topic, difficulty))
             THEN <<ValidatedFillup(q.o, i, topic, difficulty)>> \o rest
             ELSE rest

ParseFillup(raw_output, topic, difficulty, count) ==
    LET cleaned == ExtractJson(raw_output)
        parsed == JsonLoads(cleaned)
        fallback == Fallback(GenerateFallbackFillup(topic, difficulty, count))
        result ==
            IF ~parsed.ok THEN fallback
            ELSE IF parsed.v.t = "arr"
                 THEN LET valid_questions == ValidFillup(parsed.v.a, 1, topic, difficulty)
                      IN  IF valid_questions # <<>> THEN Validated(valid_questions)
                          ELSE fallback
            ELSE IF parsed.v.t = "obj"
                 THEN LET validated == ValidatedFillup(parsed.v.o, 1, topic, difficulty)
                      IN  IF CheckFillup(validated) THEN Validated(<<validated>>)
                          ELSE fallback
            ELSE fallback
    IN  [result EXCEPT !.cleaned = cleaned]

\* The loop of _parse_coding from position i on, valid_questions so far being
\* acc.  The loop is left by the AttributeError of the first element, object
\* or not kept, on which a .strip() call fails.
RECURSIVE ValidCoding(_, _, _, _, _)
ValidCoding(parsed, i, acc, topic, difficulty) ==
    IF i > Len(parsed) THEN [raised |-> FALSE, valid |-> acc]
    ELSE LET q == parsed[i]
         IN  IF q.t # "obj" THEN ValidCoding(parsed, i + 1, acc, topic, difficulty)
             ELSE IF StripRaises(q.o) THEN [raised |-> TRUE, valid |-> acc]
             ELSE LET validated == ValidatedCoding(q.o, i, topic, difficulty)
                  IN  ValidCoding(parsed, i + 1,
                                  IF CheckCoding(validated) THEN Append(acc, validated)
                                  ELSE acc,
                                  topic, difficulty)

\* The Python slice s[:n]
Slice(s, n) ==
    IF n >= 0 THEN SubSeq(s, 1, IF n < Len(s) THEN n ELSE Len(s))
    ELSE SubSeq(s, 1, IF Len(s) + n > 0 THEN Len(s) + n ELSE 0)

ParseCoding(raw_output, topic, difficulty, count) ==
    LET cleaned == ExtractJson(raw_output)
        parsed == JsonLoads(cleaned)
        fallback == Fallback(GenerateFallbackCoding(topic, difficulty, count))
        \* a single object is normalized to a list of one
        list == IF parsed.v.t = "obj" THEN <<parsed.v>> ELSE parsed.v.a
        result ==
            IF ~parsed.ok THEN fallback                \* json.JSONDecodeError, caught
            ELSE IF parsed.v.t \notin {"obj", "arr"} THEN fallback  \* ValueError, caught
            ELSE LET loop == ValidCoding(list, 1, <<>>, topic, difficulty)
                 IN  IF loop.raised THEN ParseRaised   \* AttributeError, not caught
                     ELSE IF loop.valid # <<>> THEN Validated(Slice(loop.valid, count))
                     ELSE fallback
    IN  [result EXCEPT !.cleaned = cleaned]

(***************************************************************************)
(* _call_ollama.  A response of the completion service is                  *)
(* [net, status, has_response, text]: net = "timeout" when requests raises *)
(* Timeout; otherwise the HTTP status and the JSON body, whose key         *)
(* "response", if present, holds text.                                     *)
(***************************************************************************)
\* CallOllama swallowing a failed request and answering with empty text.
CallOllama_EmptyOnFailure(resp) ==
    IF resp.net = "timeout" \/ resp.status # 200 THEN [raised |-> FALSE, text |-> <<>>]
    ELSE [raised |-> FALSE, text |-> IF resp.has_response THEN resp.text ELSE <<>>]

CallOllama(resp) ==
    IF resp.net = "timeout" THEN [raised |-> TRUE, text |-> <<>>]
    ELSE IF resp.status # 200 THEN [raised |-> TRUE, text |-> <<>>]
    ELSE [raised |-> FALSE, text |-> IF resp.has_response THEN resp.text ELSE <<>>]

(***************************************************************************)
(* The texts the completion service is made to return: JSON written out    *)
(* lexeme by lexeme from a pool of elements, bare or wrapped in prose and  *)
(* fences, and texts that are not JSON.                                    *)
(***************************************************************************)
KeyOrder ==
    <<"id", "topic", "difficulty", "type", "question", "options", "correct_answer",
      "explanation", "correct_word", "hint", "input", "output", "constraints",
      "expected_output_example", "time_limit_seconds", "A", "B">>

RECURSIVE Render(_), RenderElems(_), RenderMembers(_, _)

Render(x) ==
    CASE x.t = "str" -> <<SLit(x.s)>>
      [] x.t = "num" -> <<NLit(x.n)>>
      [] x.t = "null" -> <<NullLit>>
      [] x.t = "arr" -> <<P("[")>> \o RenderElems(x.a) \o <<P("]")>>
      [] x.t = "obj" ->
            <<P("{")>>
            \o RenderMembers(x.o, SelectSeq(KeyOrder, LAMBDA k : k \in DOMAIN x.o))
            \o <<P("}")>>

RenderElems(s) ==
    IF s = <<>> THEN <<>>
    ELSE IF Len(s) = 1 THEN Render(s[1])
    ELSE Render(s[1]) \o <<P(","), Ws(" ")>> \o RenderElems(Tail(s))

RenderMembers(f, keys) ==
    IF keys = <<>> THEN <<>>
    ELSE <<SLit(<<Head(keys)>>), P(":"), Ws(" ")>> \o Render(f[Head(keys)])
         \o (IF Len(keys) = 1 THEN <<>> ELSE <<P(","), Ws(" ")>>)
         \o RenderMembers(f, Tail(keys))

\* Every field of every kind populated, with an id and a foreign type.
FullElement ==
    Obj([id |-> Num(7), topic |-> Str(<<"Hive">>), difficulty |-> Str(<<"hard">>),
         type |-> Str(<<"essay">>), question |-> Str(<<"What", " ", "is", " ", "2+2?">>),
         options |-> Obj([A |-> Str(<<"3">>), B |-> Str(<<"4">>)]),
         correct_answer |-> Str(<<"B">>), explanation |-> Str(<<"sum">>),
         correct_word |-> Str(<<"four">>), hint |-> Str(<<"count">>),
         input |-> Str(<<"two", " ", "ints">>), output |-> Str(<<"int">>),
         constraints |-> Str(<<"none", "\n">>), expected_output_example |-> Str(<<"4">>),
         time_limit_seconds |-> Num(60)])

\* Only the mandatory fields of each kind, the coding ones padded with blanks.
MinimalElement ==
    Obj([question |-> Str(<<"Q2">>), options |-> Obj([B |-> Str(<<"yes">>)]),
         correct_word |-> Str(<<"word">>),
         input |-> Str(<<" ", "in", "\n">>), output |-> Str(<<"out">>)])

\* One mandatory field of each kind is empty.
EmptyFieldElement ==
    Obj([id |-> Num(3), question |-> Str(<<"Q3">>), options |-> Obj(EmptyDict),
         correct_word |-> Str(<<>>), input |-> Str(<<>>), output |-> Str(<<"out">>)])

\* Mandatory fields that hold only blanks.
BlankElement ==
    Obj([question |-> Str(<<"Q4">>), options |-> Obj([A |-> Str(<<"x">>)]),
         correct_word |-> Str(<<" ">>), input |-> Str(<<" ">>),
         output |-> Str(<<"out">>)])

\* Fields that hold a number, null or a list in place of a string.
MistypedElement ==
    Obj([question |-> Num(5), options |-> Arr(<<Num(1)>>), correct_word |-> Num(0),
         input |-> Null, output |-> Str(<<"out">>)])

\* A null id next to the mandatory fields of each kind.
NullIdElement ==
    Obj([id |-> Null, question |-> Str(<<"Q6">>), options |-> Obj([A |-> Str(<<"x">>)]),
         correct_answer |-> Str(<<"A">>), correct_word |-> Str(<<"word">>),
         input |-> Str(<<"in">>), output |-> Str(<<"out">>)])

\* The elements of the arrays; Num(5) is an element that is not an object.
Pool ==
    {FullElement, MinimalElement, EmptyFieldElement, BlankElement, MistypedElement,
     Num(5)}

Arrays == UNION {[1..n -> Pool] : n \in 0..MaxElems}

Prose == <<Word("Here"), Ws(" "), Word("is"), Ws(" "), Word("the"), Ws(" "),
           Word("result:"), Ws("\n")>>

\* The language tags of the fenced blocks and the contents they wrap: one
\* with a bracketed span and one without.
Tags == {"json", "python"}

FencedContents ==
    {Render(Arr(<<MinimalElement>>)), <<Word("no"), Ws(" "), Word("brackets")>>}

Wrapped(tag, content) ==
    <<Fence, Word(tag), Ws("\n")>> \o content \o <<Ws("\n"), Fence>>

Texts ==
    {Render(Arr(a)) : a \in Arrays}
    \cup {Render(e) : e \in Pool \cup {Obj(EmptyDict), Null, NullIdElement}}
    \cup {Render(Arr(<<MinimalElement, NullIdElement>>))}
    \cup {Wrapped(tag, c) : tag \in Tags, c \in FencedContents}
    \cup {Prose \o <<Fence, Word("json"), Ws("\n")>> \o Render(Arr(<<e>>))
              \o <<Ws("\n"), Fence>> : e \in Pool}
    \cup {<<Fence, Ws("\n")>> \o Render(e) \o <<Ws("\n"), Fence, Ws("\n")>> : e \in Pool}
    \cup {<<>>,
          <<Word("not"), Ws(" "), Word("json"), Ws(" "), Word("at"), Ws(" "), Word("all")>>,
          <<Ws(" "), SLit(<<"just", " ", "text">>), Ws("\n")>>,
          \* an array cut off before its closing bracket
          <<P("[")>> \o Render(MinimalElement) \o <<P(","), Ws(" ")>>,
          \* two arrays with prose between them
          Render(Arr(<<MinimalElement>>)) \o <<Ws(" "), Word("and"), Ws(" ")>>
              \o Render(Arr(<<FullElement>>)),
          \* an object cut off before its closing brace
          <<P("{"), SLit(<<"question">>), P(":")>>}

Responses ==
    {[net |-> "ok", status |-> 200, has_response |-> TRUE, text |-> t] : t \in Texts}
    \cup {[net |-> "ok", status |-> 200, has_response |-> FALSE, text |-> <<>>],
          [net |-> "ok", status |-> 500, has_response |-> FALSE, text |-> <<>>],
          [net |-> "ok", status |-> 404, has_response |-> TRUE, text |-> Render(Arr(<<FullElement>>))],
          [net |-> "timeout", status |-> 0, has_response |-> FALSE, text |-> <<>>]}

\* The (topic, difficulty) pairs of the calls; difficulty is not validated
\* against the Difficulty enum, so a value outside it is among them.
Requests ==
    {<<<<"SQL">>, <<"easy">>>>, <<<<"Node", " ", "js">>, <<"medium">>>>,
     <<<<"SQL">>, <<"hard">>>>, <<<<"Node", " ", "js">>, <<"expert">>>>}

(***************************************************************************)
(* The benchmark (src/benchmark_generation.py).  Elapsed times are not     *)
(* modelled: the entry of times made by iteration i is i.  A quality score *)
(* is kept as the exact fraction num / den.                                *)
(***************************************************************************)
Kinds == {"mcq", "fillup", "coding"}

\* QuestionBenchmark.__init__
NewResults == [k \in Kinds |-> <<>>]

\* generate_mcq, generate_fillup, generate_coding: the result of one call.
Generate(k, resp, topic, difficulty, count) ==
    LET raw_output == CallOllama(resp)
    IN  IF raw_output.raised THEN CallRaised
        ELSE CASE k = "mcq" -> ParseMcq(raw_output.text, topic, difficulty, count)
               [] k = "fillup" -> ParseFillup(raw_output.text, topic, difficulty, count)
               [] k = "coding" -> ParseCoding(raw_output.text, topic, difficulty, count)

\* bool(q.get(key))
Has(q, key) == key \in DOMAIN q /\ Truthy(q[key])

\* (quality_count / len(questions)) * 100, and 0.0 for an empty list
Percentage(quality_count, qs) ==
    IF qs = <<>> THEN [num |-> 0, den |-> 1]
    ELSE [num |-> quality_count * 100, den |-> Len(qs)]

\* _score_mcq_quality.  q.get("options", {}).values() exists only for a
\* dict: options of any other type raises AttributeError.
ScoreMcqQuality(qs) ==
    IF \E i \in 1..Len(qs) : Get(qs[i], "options", Obj(EmptyDict)).t # "obj"
    THEN [raised |-> TRUE, quality |-> Percentage(0, <<>>)]
    ELSE LET has_options(q) ==
                 LET options == Get(q, "options", Obj(EmptyDict)).o
                 IN  \A label \in DOMAIN options : Truthy(options[label])
             Complete(q) ==
                 Has(q, "question") /\ has_options(q) /\ Has(q, "correct_answer")
         IN  [raised |-> FALSE, quality |-> Percentage(Len(SelectSeq(qs, Complete)), qs)]

\* _score_fillup_quality
ScoreFillupQuality(qs) ==
    LET Complete(q) == Has(q, "question") /\ Has(q, "correct_word") /\ Has(q, "hint")
    IN  [raised |-> FALSE, quality |-> Percentage(Len(SelectSeq(qs, Complete)), qs)]

\* _score_coding_quality
ScoreCodingQuality(qs) ==
    LET Complete(q) ==
            /\ Has(q, "question") /\ Has(q, "input") /\ Has(q, "output")
            /\ Has(q, "constraints") /\ Has(q, "expected_output_example")
    IN  [raised |-> FALSE, quality |-> Percentage(Len(SelectSeq(qs, Complete)), qs)]

ScoreQuality(k, qs) ==
    CASE k = "mcq" -> ScoreMcqQuality(qs)
      [] k = "fillup" -> ScoreFillupQuality(qs)
      [] k = "coding" -> ScoreCodingQuality(qs)

\* The state of a run before its first iteration: the locals times and
\* quality_scores, the records appended to results[kind], and the history
\* of the calls that returned.
LoopStart ==
    [times |-> <<>>, quality_scores |-> <<>>, extended |-> <<>>,
     generated |-> <<>>, succeeded |-> <<>>]

\* The body of the loop of benchmark_mcq, benchmark_fillup and
\* benchmark_coding in iteration i, r being the result of its generation
\* call.  An exception of the generation call or of the scorer ends the
\* iteration (except Exception: continue): the former before times is
\* appended to, the latter after.
Iteration(k, r, i, acc) ==
    IF r.outcome = "raised" THEN acc
    ELSE LET timed == [acc EXCEPT !.times = Append(@, i),
                                  !.generated = @ \o r.questions,
                                  !.succeeded = Append(@, i)]
             score == ScoreQuality(k, r.questions)
         IN  IF score.raised THEN timed
             ELSE [timed EXCEPT !.quality_scores = Append(@, score.quality),
                                !.extended = @ \o r.questions]

\* The loop from iteration i on; resps[i] is what the service answers in
\* iteration i.
RECURSIVE BenchmarkLoop(_, _, _, _, _, _, _)
BenchmarkLoop(k, resps, i, topic, difficulty, count, acc) ==
    IF i > Len(resps) THEN acc
    ELSE BenchmarkLoop(k, resps, i + 1, topic, difficulty, count,
                       Iteration(k, Generate(k, resps[i], topic, difficulty, count),
                                 i, acc))

\* What a run returns: the summary if times is not empty, else the empty
\* dict; statistics.mean of an empty quality_scores raises StatisticsError.
\* The averaged and the timing fields of the summary are not modelled.
Summary(k, iterations, count, times, quality_scores, total_questions) ==
    IF times # <<>>
    THEN IF quality_scores = <<>> THEN [t |-> "raised"]
         ELSE [t |-> "summary", type |-> k, iterations |-> iterations,
               questions_per_iteration |-> count,
               total_questions |-> total_questions]
    ELSE [t |-> "empty"]

\* What the completion service answers during a benchmark.
BenchResponses ==
    {[net |-> "ok", status |-> 200, has_response |-> TRUE,
      text |-> Render(Arr(<<MinimalElement>>))],
     [net |-> "ok", status |-> 200, has_response |-> TRUE,
      text |-> Render(Arr(<<MistypedElement>>))],
     [net |-> "ok", status |-> 500, has_response |-> FALSE, text |-> <<>>]}

(***************************************************************************)
(* The state machine: one call of a generation entry point on the inputs   *)
(* drawn by Init.  The elapsed time returned next to the questions is not  *)
(* modelled.                                                               *)
(***************************************************************************)
\* A QuestionBenchmark as __init__ leaves it.
InitBenchmark ==
    /\ results = NewResults
    /\ run_kind = "none"
    /\ run_iterations = 0
    /\ run_times = <<>>
    /\ run_quality_scores = <<>>
    /\ run_summary = [t |-> "none"]
    /\ calls = 0
    /\ generated = NewResults
    /\ succeeded = <<>>

Init ==
    /\ InitBenchmark
    /\ \E r \in Requests : call_topic = r[1] /\ call_difficulty = r[2]
    /\ call_count \in 1..MaxCount
    /\ response \in Responses
    /\ pc = "ready"
    /\ kind = "none"
    /\ outcome = "none"
    /\ path = "none"
    /\ call_cleaned = <<>>
    /\ questions = <<>>

\* call_cleaned is the local cleaned of the three parsers; it keeps its
\* initial value when the service call raised before any parser ran.
Finish(k, r) ==
    /\ pc' = "done"
    /\ kind' = k
    /\ outcome' = r.outcome
    /\ path' = r.path
    /\ call_cleaned' = r.cleaned
    /\ questions' = r.questions
    /\ UNCHANGED <<call_topic, call_difficulty, call_count, response>>
    /\ UNCHANGED benchmarkVars

GenerateMcq ==
    /\ pc = "ready"
    /\ LET raw_output == CallOllama(response)
       IN  IF raw_output.raised THEN Finish("mcq", CallRaised)
           ELSE Finish("mcq", ParseMcq(raw_output.text, call_topic, call_difficulty,
                                       call_count))

GenerateFillup ==
    /\ pc = "ready"
    /\ LET raw_output == CallOllama(response)
       IN  IF raw_output.raised THEN Finish("fillup", CallRaised)
           ELSE Finish("fillup", ParseFillup(raw_output.text, call_topic,
                                             call_difficulty, call_count))

GenerateCoding ==
    /\ pc = "ready"
    /\ LET raw_output == CallOllama(response)
       IN  IF raw_output.raised THEN Finish("coding", CallRaised)
           ELSE Finish("coding", ParseCoding(raw_output.text, call_topic,
                                             call_difficulty, call_count))

Next == GenerateMcq \/ GenerateFillup \/ GenerateCoding

Spec == Init /\ [][Next]_vars

(***************************************************************************)
(* The state machine of the benchmark: any sequence of runs of             *)
(* benchmark_mcq, benchmark_fillup and benchmark_coding on one             *)
(* QuestionBenchmark, with the default topics and difficulty and the       *)
(* counts benchmark_all passes.  The generation calls are made inside the  *)
(* runs, so the variables of the single call above stay idle.              *)
(***************************************************************************)
InitBench ==
    /\ InitBenchmark
    /\ call_topic = <<>>
    /\ call_difficulty = <<>>
    /\ call_count = 1
    /\ response = [net |-> "ok", status |-> 200, has_response |-> FALSE, text |-> <<>>]
    /\ pc = "ready"
    /\ kind = "none"
    /\ outcome = "none"
    /\ path = "none"
    /\ call_cleaned = <<>>
    /\ questions = <<>>

Benchmark(k, topic, difficulty, count) ==
    \E iterations \in 0..(MaxCalls - calls) :
        \E resps \in [1..iterations -> BenchResponses] :
            \E loop \in {BenchmarkLoop(k, resps, 1, topic, difficulty, count, LoopStart)} :
            LET extended == results[k] \o loop.extended
            IN  /\ results' = [results EXCEPT ![k] = extended]
                /\ run_kind' = k
                /\ run_iterations' = iterations
                /\ run_times' = loop.times
                /\ run_quality_scores' = loop.quality_scores
                /\ run_summary' = Summary(k, iterations, count, loop.times,
                                          loop.quality_scores, Len(extended))
                /\ calls' = calls + iterations
                /\ generated' = [generated EXCEPT ![k] = @ \o loop.generated]
                /\ succeeded' = loop.succeeded
                /\ UNCHANGED generatorVars

BenchmarkMcq == Benchmark("mcq", <<"AWS", " ", "VPC">>, <<"hard">>, 1)

BenchmarkFillup == Benchmark("fillup", <<"Data", " ", "Transmission">>, <<"hard">>, 1)

BenchmarkCoding ==
    Benchmark("coding", <<"Spring", " ", "Boot", " ", "Services">>, <<"hard">>, 2)

NextBench == BenchmarkMcq \/ BenchmarkFillup \/ BenchmarkCoding

SpecBench == InitBench /\ [][NextBench]_vars

TypeOK ==
    /\ pc \in {"ready", "done"}
    /\ kind \in {"none", "mcq", "fillup", "coding"}
    /\ outcome \in {"none", "returned", "raised"}
    /\ path \in {"none", "validated", "fallback", "parse_raised", "call_raised"}

(***************************************************************************)
(* Vocabulary of the properties.                                           *)
(***************************************************************************)
Done == pc = "done"

\* The request to the completion service failed: timeout or a status other
\* than 200.
ServiceFailed == response.net = "timeout" \/ response.status # 200

\* The raw text of a successful response.
RawText == IF response.has_response THEN response.text ELSE <<>>

\* What json.loads makes of the unwrapped raw text.
Parsed == JsonLoads(ExtractJson(RawText))

\* The elements of a parse result: those of an array, or the single object.
ElementsOf(parsed) ==
    IF ~parsed.ok THEN <<>>
    ELSE IF parsed.v.t = "arr" THEN parsed.v.a
    ELSE IF parsed.v.t = "obj" THEN <<parsed.v>>
    ELSE <<>>

Elements == ElementsOf(Parsed)

GenerateFallback(k, topic, difficulty, count) ==
    CASE k = "mcq" -> GenerateFallbackMcq(topic, difficulty, count)
      [] k = "fillup" -> GenerateFallbackFillup(topic, difficulty, count)
      [] k = "coding" -> GenerateFallbackCoding(topic, difficulty, count)

\* Field key of record rec is present and not empty.
NonEmpty(rec, key) == key \in DOMAIN rec /\ Truthy(rec[key])

\* The mandatory-field check of kind k on a returned record.
MandatoryOk(k, rec) ==
    CASE k = "mcq" -> NonEmpty(rec, "question") /\ NonEmpty(rec, "options")
      [] k = "fillup" -> NonEmpty(rec, "question") /\ NonEmpty(rec, "correct_word")
      [] k = "coding" ->
            NonEmpty(rec, "question") /\ NonEmpty(rec, "input") /\ NonEmpty(rec, "output")

\* A string field of a source element that is not empty after trimming.
NonBlank(q, key) == key \in DOMAIN q /\ q[key].t = "str" /\ Strip(q[key].s) # <<>>

\* The source element e passes the mandatory-field check of kind k.
Passes(k, e) ==
    /\ e.t = "obj"
    /\ CASE k = "mcq" -> NonEmpty(e.o, "question") /\ NonEmpty(e.o, "options")
         [] k = "fillup" -> NonEmpty(e.o, "question") /\ NonEmpty(e.o, "correct_word")
         [] k = "coding" ->
               NonBlank(e.o, "question") /\ NonBlank(e.o, "input") /\ NonBlank(e.o, "output")

\* The positions of the elements of elems that pass the check of kind k, in
\* order.
PassingPositions(k, elems) ==
    SelectSeq([i \in 1..Len(elems) |-> i], LAMBDA i : Passes(k, elems[i]))

\* Record rec is the record of the source element e at position i: same
\* question (trimmed for coding) and the id of the source or the position.
RecordOf(k, rec, e, i) ==
    /\ rec.id = Get(e.o, "id", Num(i))
    /\ rec.question = IF k = "coding" THEN Str(Strip(e.o.question.s)) ELSE e.o.question

\* The fields of each kind's schema.
SchemaKeys(k) ==
    CASE k = "mcq" ->
            {"id", "topic", "difficulty", "type", "question", "options",
             "correct_answer", "explanation"}
      [] k = "fillup" ->
            {"id", "topic", "difficulty", "type", "question", "correct_word", "hint",
             "explanation"}
      [] k = "coding" ->
            {"id", "topic", "difficulty", "type", "question", "input", "output",
             "constraints", "expected_output_example", "time_limit_seconds"}

(***************************************************************************)
(* C1.  For count >= 1 and whatever raw text the service returns, each     *)
(* entry point returns a sequence of at least one record, of exactly count *)
(* records on the fallback path and, for coding, of at most count records. *)
(***************************************************************************)
C1_Totality ==
    (Done /\ ~ServiceFailed /\ call_count >= 1) =>
        /\ outcome = "returned"
        /\ Len(questions) >= 1
        /\ (path = "fallback" => Len(questions) = call_count)
        /\ (kind = "coding" => Len(questions) <= call_count)

(***************************************************************************)
(* C2.  For every raw text the parse functions return a list and never     *)
(* raise, also when elements are not objects or fields hold a number,      *)
(* null, a list or an object in place of a string.                         *)
(***************************************************************************)
C2_NeverRaises == (Done /\ ~ServiceFailed) => outcome = "returned"

C4_MandatoryFields ==
    (Done /\ outcome = "returned") =>
        \A i \in 1..Len(questions) : MandatoryOk(kind, questions[i])

(***************************************************************************)
(* C5.  Every returned record of kind K, validated or fallback, carries    *)
(* every field of K's schema as a key.                                     *)
(***************************************************************************)
C5_SchemaKeys ==
    (Done /\ outcome = "returned") =>
        \A i \in 1..Len(questions) : SchemaKeys(kind) \subseteq DOMAIN questions[i]

(***************************************************************************)
(* C6.  Every record returned by generate_coding has the fields            *)
(* function_name, test_input and expected_output.                          *)
(***************************************************************************)
C6_TestFields ==
    (Done /\ kind = "coding" /\ outcome = "returned") =>
        \A i \in 1..Len(questions) :
            {"function_name", "test_input", "expected_output"} \subseteq DOMAIN questions[i]

(***************************************************************************)
(* C7.  In every returned record the type field is the constant of the     *)
(* requested kind, whatever type the source element carried.               *)
(***************************************************************************)
C7_TypeForced ==
    (Done /\ outcome = "returned") =>
        \A i \in 1..Len(questions) : questions[i].type = Str(<<kind>>)

\* A validated record whose source element carried another type.
C7_Witness ==
    /\ Done
    /\ kind = "mcq"
    /\ path = "validated"
    /\ response.has_response
    /\ response.text = Render(Arr(<<FullElement, MinimalElement>>))
    /\ Len(questions) >= 1
    /\ questions[1].id = Num(7)
    /\ questions[1].type = Str(<<"mcq">>)

(***************************************************************************)
(* C8.  Whenever the unwrapped text fails to parse, parses to a shape      *)
(* other than an array or an object, or yields no kept element, the result *)
(* is exactly count placeholder records built from topic, difficulty and   *)
(* position only, the i-th having id i.                                    *)
(***************************************************************************)
C8_FallbackRoutes ==
    (Done /\ ~ServiceFailed /\ PassingPositions(kind, Elements) = <<>>) =>
        /\ outcome = "returned"
        /\ questions = GenerateFallback(kind, call_topic, call_difficulty, call_count)
        /\ Len(questions) = call_count
        /\ \A i \in 1..Len(questions) : questions[i].id = Num(i)
        /\ \A i, j \in 1..Len(questions) :
              \A key \in DOMAIN questions[i] \ {"id", "question", "function_name"} :
                  questions[i][key] = questions[j][key]

(***************************************************************************)
(* C9.  When the parsed array has at least one element that passes the     *)
(* mandatory-field check, the result is exactly the passing elements in    *)
(* input order (for coding the first count of them): failing elements are  *)
(* dropped and no fallback record is mixed in.                             *)
(***************************************************************************)
C9_KeepsPassing ==
    LET parsed == Parsed
        elems == ElementsOf(parsed)
        passing == PassingPositions(kind, elems)
        expected == IF kind = "coding" THEN Slice(passing, call_count) ELSE passing
    IN  (Done /\ ~ServiceFailed /\ parsed.ok /\ parsed.v.t = "arr" /\ passing # <<>>) =>
            /\ outcome = "returned"
            /\ path = "validated"
            /\ Len(questions) = Len(expected)
            /\ \A k \in 1..Len(expected) :
                  RecordOf(kind, questions[k], elems[expected[k]], expected[k])

(***************************************************************************)
(* C10.  When more than count elements are kept, coding returns exactly    *)
(* the first count kept elements in array order; MCQ and fillup return all *)
(* kept elements.                                                          *)
(***************************************************************************)
C10_Truncation ==
    LET elems == Elements
        passing == PassingPositions(kind, elems)
    IN  (Done /\ ~ServiceFailed /\ Len(passing) > call_count) =>
            /\ outcome = "returned"
            /\ Len(questions) = IF kind = "coding" THEN call_count ELSE Len(passing)
            /\ \A k \in 1..Len(questions) :
                  RecordOf(kind, questions[k], elems[passing[k]], passing[k])

(***************************************************************************)
(* Vocabulary of the properties about single records.                      *)
(***************************************************************************)
\* The positions of the source elements behind the returned records: the
\* passing ones, for coding the first count of them.
KeptPositions(k, elems, count) ==
    LET passing == PassingPositions(k, elems)
    IN  IF k = "coding" THEN Slice(passing, count) ELSE passing

\* Every field of the schema of kind k is present in q and not empty.
Populated(k, q) == \A key \in SchemaKeys(k) : NonEmpty(q, key)

\* The validation step of kind k on one element.
Validate(k, q, i, topic, difficulty) ==
    CASE k = "mcq" -> ValidatedMcq(q, i, topic, difficulty)
      [] k = "fillup" -> ValidatedFillup(q, i, topic, difficulty)
      [] k = "coding" -> ValidatedCoding(q, i, topic, difficulty)

\* The parser of kind k.
Parse(k, raw_output, topic, difficulty, count) ==
    CASE k = "mcq" -> ParseMcq(raw_output, topic, difficulty, count)
      [] k = "fillup" -> ParseFillup(raw_output, topic, difficulty, count)
      [] k = "coding" -> ParseCoding(raw_output, topic, difficulty, count)

\* correct_answer of an MCQ record is one of the labels of its options.
AnswerIsLabel(rec) ==
    /\ rec.options.t = "obj"
    /\ rec.correct_answer.t = "str"
    /\ Len(rec.correct_answer.s) = 1
    /\ rec.correct_answer.s[1] \in DOMAIN rec.options.o

\* The time limit the difficulty table gives.
TableLimit(difficulty) ==
    CASE difficulty = <<"easy">> -> 120
      [] difficulty = <<"medium">> -> 180
      [] difficulty = <<"hard">> -> 300

(***************************************************************************)
(* C11.  In every returned record id is never null: it is the id of the    *)
(* source element when the source supplies one, and otherwise the 1-based  *)
(* position of the element in the parsed batch (of the record, for a       *)
(* fallback record).                                                       *)
(***************************************************************************)
C11_IdAssigned ==
    LET elems == Elements
        kept == KeptPositions(kind, elems, call_count)
    IN  (Done /\ outcome = "returned") =>
            /\ \A k \in 1..Len(questions) : questions[k].id # Null
            /\ path = "validated" =>
                  /\ Len(questions) = Len(kept)
                  /\ \A k \in 1..Len(kept) :
                        LET src == elems[kept[k]].o
                        IN  questions[k].id =
                                IF "id" \in DOMAIN src /\ src.id # Null THEN src.id
                                ELSE Num(kept[k])
            /\ path = "fallback" =>
                  \A k \in 1..Len(questions) : questions[k].id = Num(k)

(***************************************************************************)
(* C12.  In every returned MCQ record, correct_answer is one of the labels *)
(* of the options of that record.                                          *)
(***************************************************************************)
C12_AnswerIsLabel ==
    (Done /\ kind = "mcq" /\ outcome = "returned") =>
        \A k \in 1..Len(questions) : AnswerIsLabel(questions[k])

(***************************************************************************)
(* C12, as the code has it.  In every MCQ fallback record correct_answer   *)
(* is one of the labels of the options of the record; in a validated MCQ   *)
(* record correct_answer is that of the source element, or A when the      *)
(* element has none, and is not checked against the labels of options.     *)
(***************************************************************************)
C12_AnswerAsGiven ==
    LET elems == Elements
        kept == KeptPositions(kind, elems, call_count)
    IN  (Done /\ kind = "mcq" /\ outcome = "returned") =>
            /\ path = "fallback" =>
                  \A k \in 1..Len(questions) : AnswerIsLabel(questions[k])
            /\ path = "validated" =>
                  /\ Len(questions) = Len(kept)
                  /\ \A k \in 1..Len(kept) :
                        LET src == elems[kept[k]].o
                        IN  questions[k].correct_answer =
                                IF "correct_answer" \in DOMAIN src THEN src.correct_answer
                                ELSE Str(<<"A">>)

\* A validated MCQ record whose defaulted answer A is not among its options,
\* and a call that returned fallback records.
C12_Witness ==
    /\ Done /\ kind = "mcq" /\ outcome = "returned" /\ path = "validated"
    /\ \E k \in 1..Len(questions) :
          /\ questions[k].correct_answer = Str(<<"A">>)
          /\ ~AnswerIsLabel(questions[k])

(***************************************************************************)
(* C13.  Validating an element that has every field of the schema of the   *)
(* kind populated and passes the mandatory-field check yields a record     *)
(* equal to the element field for field, except that type is the kind      *)
(* constant; validating the record again changes nothing.                  *)
(***************************************************************************)
C13_EqualToElement ==
    LET elems == Elements
        kept == KeptPositions(kind, elems, call_count)
    IN  (Done /\ outcome = "returned" /\ path = "validated") =>
            /\ Len(questions) = Len(kept)
            /\ \A k \in 1..Len(kept) :
                  LET src == elems[kept[k]].o
                      rec == questions[k]
                  IN  Populated(kind, src) =>
                          /\ DOMAIN rec = SchemaKeys(kind)
                          /\ \A key \in SchemaKeys(kind) \ {"type"} : rec[key] = src[key]
                          /\ rec.type = Str(<<kind>>)
                          /\ Validate(kind, rec, k, call_topic, call_difficulty) = rec

(***************************************************************************)
(* C13, as the code has it.  Validating an element that has every field of *)
(* the schema of the kind populated (for coding, the five text fields      *)
(* holding strings) and passes the mandatory-field check yields a record   *)
(* equal to the element field for field, except that type is the kind      *)
(* constant and that, for coding, question, input, output, constraints and *)
(* expected_output_example are trimmed of surrounding whitespace;          *)
(* validating the record again changes nothing.                            *)
(***************************************************************************)
C13_EqualUpToTrim ==
    LET elems == Elements
        kept == KeptPositions(kind, elems, call_count)
    IN  (Done /\ outcome = "returned" /\ path = "validated") =>
            /\ Len(questions) = Len(kept)
            /\ \A k \in 1..Len(kept) :
                  LET src == elems[kept[k]].o
                      rec == questions[k]
                  IN  Populated(kind, src) =>
                          /\ DOMAIN rec = SchemaKeys(kind)
                          /\ \A key \in SchemaKeys(kind) \ {"type"} :
                                rec[key] = IF kind = "coding" /\ key \in StrippedFields
                                           THEN Str(Strip(src[key].s))
                                           ELSE src[key]
                          /\ rec.type = Str(<<kind>>)
                          /\ Validate(kind, rec, k, call_topic, call_difficulty) = rec

\* A coding record made from a fully populated element, one field of which
\* lost its padding.
C13_Witness ==
    LET elems == Elements
        kept == KeptPositions(kind, elems, call_count)
    IN  /\ Done /\ kind = "coding" /\ outcome = "returned" /\ path = "validated"
        /\ \E k \in 1..Len(kept) :
              /\ Populated(kind, elems[kept[k]].o)
              /\ questions[k].constraints # elems[kept[k]].o.constraints

(***************************************************************************)
(* Vocabulary of the properties about _extract_json.                       *)
(***************************************************************************)
\* The raw text once both fence substitutions are done.
Unfenced == SubFence(SubFenceJson(RawText))

\* The span of toks from the first open to the last close, <<>> if there is
\* no open followed by a close.
SpanOf(toks, open, close) ==
    IF \E i \in Positions(toks, open) : \E j \in Positions(toks, close) : i < j
    THEN SubSeq(toks, Min(Positions(toks, open)), Max(Positions(toks, close)))
    ELSE <<>>

(***************************************************************************)
(* C14.  Given input wrapped in a fenced code block with a language tag,   *)
(* json or any other, _extract_json returns the input with the opening     *)
(* fence, the tag and the closing fence removed.                           *)
(***************************************************************************)
C14_FenceAndTagRemoved ==
    (Done /\ ~ServiceFailed) =>
        \A tag \in Tags, c \in FencedContents :
            RawText = Wrapped(tag, c) => call_cleaned = c

(***************************************************************************)
(* C15.  After fence removal _extract_json returns the span from the first *)
(* [ to the last ] whenever there is one anywhere in the text, even if a { *)
(* occurs earlier; the span from the first { to the last } only when there *)
(* is no [ ] span; and the whole trimmed text when there is neither.       *)
(***************************************************************************)
C15_ArrayFirst ==
    LET text == Unfenced
        array == SpanOf(text, "[", "]")
        object == SpanOf(text, "{", "}")
    IN  (Done /\ ~ServiceFailed) =>
            call_cleaned = IF array # <<>> THEN array
                           ELSE IF object # <<>> THEN object
                           ELSE StripText(text)

(***************************************************************************)
(* C16.  A coding element that passes the mandatory-field check and has no *)
(* time_limit_seconds gets the default of the difficulty of the request:   *)
(* 120 for easy, 180 for medium, 300 for hard; the fallback coding records *)
(* use the same table.                                                     *)
(***************************************************************************)
C16_DefaultByDifficulty ==
    LET elems == Elements
        kept == KeptPositions(kind, elems, call_count)
    IN  (/\ Done /\ kind = "coding" /\ outcome = "returned"
         /\ call_difficulty \in {<<"easy">>, <<"medium">>, <<"hard">>}) =>
            /\ path = "fallback" =>
                  \A k \in 1..Len(questions) :
                      questions[k].time_limit_seconds = Num(TableLimit(call_difficulty))
            /\ path = "validated" =>
                  /\ Len(questions) = Len(kept)
                  /\ \A k \in 1..Len(kept) :
                        "time_limit_seconds" \notin DOMAIN elems[kept[k]].o =>
                            questions[k].time_limit_seconds
                                = Num(TableLimit(call_difficulty))

(***************************************************************************)
(* C17.  For each kind and every JSON object o, parsing text that holds    *)
(* the single object o gives the same result as parsing text that holds    *)
(* the one-element array of o: the same validated record, its id           *)
(* defaulting to 1, when o passes the check, and the same count fallback   *)
(* records when it does not.                                               *)
(***************************************************************************)
C17_ObjectAsArrayOfOne ==
    LET parsed == Parsed
    IN  (Done /\ ~ServiceFailed /\ parsed.ok /\ parsed.v.t = "obj") =>
            LET o == parsed.v
                asArray == Parse(kind, Render(Arr(<<o>>)), call_topic, call_difficulty,
                                 call_count)
            IN  /\ outcome = asArray.outcome
                /\ path = asArray.path
                /\ questions = asArray.questions
                /\ Passes(kind, o) =>
                      /\ outcome = "returned"
                      /\ path = "validated"
                      /\ Len(questions) = 1
                      /\ questions[1].id = Get(o.o, "id", Num(1))
                /\ ~Passes(kind, o) =>
                      /\ outcome = "returned"
                      /\ questions = GenerateFallback(kind, call_topic, call_difficulty,
                                                      call_count)

(***************************************************************************)
(* C18.  After any sequence of benchmark runs on one QuestionBenchmark,    *)
(* results[kind] is the concatenation, in iteration order, of the record   *)
(* lists returned by the iterations of that kind whose generation call     *)
(* succeeded, a run of one kind leaving the lists of the other kinds       *)
(* alone; an iteration whose generation call raises appends nothing and    *)
(* records no time, and the loop goes on; the run returns an empty summary *)
(* only if every iteration failed.                                         *)
(***************************************************************************)
C18_ResultsAccumulate ==
    /\ \A k \in Kinds : results[k] = generated[k]
    /\ run_times = succeeded
    /\ run_summary.t = "empty" => succeeded = <<>>

====
